---- MODULE Spec2Model ----
(***************************************************************************)
(* Model of the structured invocation engine                               *)
(* (src/src/agents/agent_invoker.py, class AgentInvoker).                  *)
(*                                                                         *)
(* One invocation of invoke_with_tools is followed step by step: the       *)
(* call itself (tool binding and conversation assembly) and then one step  *)
(* per iteration of the retry loop, each step carrying one backend call,   *)
(* the interpretation of its response, the except handler and, when the    *)
(* loop runs out, the final raise.                                         *)
(*                                                                         *)
(* Python values are records [type, repr]: the Python type name and a      *)
(* canonical rendering of the value.                                       *)
(***************************************************************************)
EXTENDS Integers, Sequences, FiniteSets, TLC

\* Largest max_retries given to the constructor in the model.
MaxRetries == 3

(***************************************************************************)
(* Python values                                                           *)
(***************************************************************************)
PyDict(r) == [type |-> "dict", repr |-> r]
PyStr(r) == [type |-> "str", repr |-> r]
PyList(r) == [type |-> "list", repr |-> r]
PyNone == [type |-> "NoneType", repr |-> "None"]

EmptyDict == PyDict("{}")
ArgsDict == PyDict("{a: 2, b: 3}")
OtherDict == PyDict("{a: 9, b: 9}")
ArgsJsonObject == PyStr("{\"a\": 2, \"b\": 3}")
ArgsJsonList == PyStr("[1, 2]")
ArgsBadJson == PyStr("{bad json")
ArgsList == PyList("[1, 2]")

\* Argument payloads a backend tool call can carry under the key "args".
Payloads == {ArgsDict, EmptyDict, ArgsJsonObject, ArgsJsonList, ArgsBadJson, ArgsList}

(***************************************************************************)
(* Exceptions: type, message and the attempt during which they were raised *)
(* (0 when raised outside the loop body).                                  *)
(***************************************************************************)
Exc(t, m, a) == [type |-> t, msg |-> m, at |-> a]
NoExc == Exc("none", "", 0)
TransportError(a) == Exc("ConnectionError", "backend unreachable", a)
ParseArgsError(a) == Exc("ValueError", "Failed to parse tool args", a)
ToolCallRequiredError == Exc("ValueError", "Model failed to call the required tool after all retries.", 0)

(***************************************************************************)
(* json.loads on the payloads above: a str holding a JSON object decodes   *)
(* to a dict, a str holding a JSON array to a list, anything that is not   *)
(* JSON raises JSONDecodeError and a non-str argument raises TypeError.    *)
(***************************************************************************)
loads(v) ==
    IF v.type # "str" THEN [ok |-> FALSE, value |-> PyNone, err |-> "TypeError"]
    ELSE IF v = ArgsJsonObject THEN [ok |-> TRUE, value |-> ArgsDict, err |-> ""]
    ELSE IF v = ArgsJsonList THEN [ok |-> TRUE, value |-> ArgsList, err |-> ""]
    ELSE [ok |-> FALSE, value |-> PyNone, err |-> "JSONDecodeError"]

(***************************************************************************)
(* Backend responses                                                       *)
(***************************************************************************)
ToolCall(hasArgs, args) == [name |-> "sum_tool", has_args |-> hasArgs, args |-> args]

\* First proposed tool calls: one per payload, and one without the "args" key.
FirstToolCalls == {ToolCall(TRUE, p) : p \in Payloads} \cup {ToolCall(FALSE, PyNone)}

Response(hasTc, tcs, hasContent, content) ==
    [has_tool_calls |-> hasTc, tool_calls |-> tcs,
     has_content |-> hasContent, content |-> content]

\* Responses proposing one or two tool calls.
ToolCallResponses ==
    {Response(TRUE, <<tc>>, TRUE, "") : tc \in FirstToolCalls}
    \cup {Response(TRUE, <<tc, ToolCall(TRUE, OtherDict)>>, TRUE, "") : tc \in FirstToolCalls}

\* Responses proposing no tool call: an empty list or no tool_calls
\* attribute at all, with text, with empty text or without a content attribute.
NoToolCallResponses ==
    {Response(TRUE, <<>>, TRUE, "42"), Response(TRUE, <<>>, TRUE, ""),
     Response(TRUE, <<>>, FALSE, ""), Response(FALSE, <<>>, TRUE, "42")}

Responses == ToolCallResponses \cup NoToolCallResponses

\* Value of the local variable response before the first assignment.
NoResponse == Response(FALSE, <<>>, FALSE, "")

\* What the backend did on one call, as recorded in the call log.
ResponseKind(r) ==
    IF r.tool_calls # <<>> THEN "tool_calls"
    ELSE IF ~r.has_content THEN "bare"
    ELSE IF r.content = "" THEN "blank"
    ELSE "text"

NoToolCallKinds == {"text", "blank", "bare"}

(***************************************************************************)
(* Interpretation of one response (loop body of invoke_with_tools)         *)
(***************************************************************************)
\* getattr(response, "tool_calls", None): None and [] are both falsy.
ToolCallsOf(r) == IF r.has_tool_calls THEN r.tool_calls ELSE <<>>

\* FirstToolCall taking the most recent proposal instead.
LastToolCall(tcs) == tcs[Len(tcs)]

\* tool_calls[0]: the first proposed call, in the backend's order.
FirstToolCall(tcs) == tcs[1]

\* GetArgs reading a key the backend never sets.
GetArgsWrongKey(tc) == EmptyDict

\* tool_calls[0].get("args", {})
GetArgs(tc) == IF tc.has_args THEN tc.args ELSE EmptyDict

\* The isinstance check and the json recovery of a payload that is not a dict.
RecoverArgs(args, a) ==
    IF args.type = "dict" THEN [ok |-> TRUE, value |-> args, exc |-> NoExc]
    ELSE LET d == loads(args)
         IN IF d.ok THEN [ok |-> TRUE, value |-> d.value, exc |-> NoExc]
            ELSE [ok |-> FALSE, value |-> PyNone, exc |-> ParseArgsError(a)]

\* Callables a caller passes as response_parser ("None": no parser).
\*   "custom":  the test suite's parser, which builds a new dict out of
\*              args.get(...) and so raises AttributeError on a non-dict;
\*   "raising": a parser that rejects its input with KeyError.
Parsers == {"None", "custom", "raising"}

ApplyParser(p, args, a) ==
    IF p = "custom" /\ args.type = "dict"
    THEN [ok |-> TRUE, value |-> PyDict("custom_parser(" \o args.repr \o ")"), exc |-> NoExc]
    ELSE IF p = "custom"
    THEN [ok |-> FALSE, value |-> PyNone, exc |-> Exc("AttributeError", "no attribute get", a)]
    ELSE [ok |-> FALSE, value |-> PyNone, exc |-> Exc("KeyError", "querySQL", a)]

\* TextFallbackApplies without the test of tool_choice.
TextFallbackAnyChoice(tc, r) == r.has_content

\* tool_choice == "auto" and hasattr(response, "content")
TextFallbackApplies(tc, r) == tc = "auto" /\ r.has_content

\* WrapResponse returning the bare text.
WrapResponseBare(content) == PyStr(content)

\* {"response": response.content}
WrapResponse(content) == PyDict("{response: " \o content \o "}")

\* What the statements inside the try block do with response r:
\* return a value, raise an exception, or fall through to the warning.
\* applied counts the calls of response_parser.
Return(v, n) == [kind |-> "return", value |-> v, exc |-> NoExc, applied |-> n]
Raise(e, n) == [kind |-> "raise", value |-> PyNone, exc |-> e, applied |-> n]
FallThrough == [kind |-> "continue", value |-> PyNone, exc |-> NoExc, applied |-> 0]

TryBody(r, tc, parser, a) ==
    LET tcs == ToolCallsOf(r)
    IN IF tcs # <<>>
       THEN LET rec == RecoverArgs(GetArgs(FirstToolCall(tcs)), a)
            IN IF ~rec.ok THEN Raise(rec.exc, 0)
               ELSE IF parser # "None"
               THEN LET p == ApplyParser(parser, rec.value, a)
                    IN IF p.ok THEN Return(p.value, 1) ELSE Raise(p.exc, 1)
               ELSE Return(rec.value, 0)
       ELSE IF TextFallbackApplies(tc, r) THEN Return(WrapResponse(r.content), 0)
       ELSE FallThrough

\* AttemptRange as range(1, self.max_retries).
AttemptRangeOffByOne(n) == 1..(n - 1)

\* range(1, self.max_retries + 1)
AttemptRange(n) == 1..n

\* IsLastAttempt compared against one ordinal too many.
IsLastAttemptOffByOne(a, n) == a = n + 1

\* attempt == self.max_retries, the test of the except handler
IsLastAttempt(a, n) == a = n

(***************************************************************************)
(* State                                                                   *)
(***************************************************************************)
VARIABLES
    max_retries,      \* self.max_retries, set by the constructor
    pc,               \* "idle" | "loop" | "done"
    tool_choice,      \* argument of the running invocation
    response_parser,  \* argument of the running invocation
    messages,         \* the conversation assembled for the invocation
    model_with_tools, \* the binding made for the invocation
    attempt,          \* loop variable
    response,         \* local variable response (last response received)
    backend_calls,    \* log of the calls of model_with_tools.invoke
    sent,             \* what each backend call was given: operation, messages, binding
    parser_calls,     \* number of calls of response_parser
    outcome,          \* "pending" | "returned" | "raised"
    result,           \* the value returned
    exception,        \* the exception that left invoke_with_tools
    engine            \* the engine object shared by concurrent callers, with
                      \* the frames of the invocations that run on it

vars == <<max_retries, pc, tool_choice, response_parser, messages,
          model_with_tools, attempt, response, backend_calls, sent, parser_calls,
          outcome, result, exception, engine>>

\* Concurrent callers of one engine (the sessions of the dashboard).
Callers == {1, 2}

\* The frame of a caller that has not called yet.
IdleFrame ==
    [pc |-> "idle", op |-> "", tool_choice |-> "", response_parser |-> "None",
     events |-> <<>>, outcome |-> "pending", result |-> PyNone, exception |-> NoExc]

\* AgentInvoker(model_name="llama3.1", temperature=0, ...): the attributes
\* set by __init__ next to max_retries, the frames of the callers, and the
\* cells that hold the loop variable attempt of each frame.
EngineStart ==
    [self |-> [model_name |-> "llama3.1", temperature |-> 0, model |-> "ChatOllama(llama3.1, 0)"],
     inv |-> [i \in Callers |-> IdleFrame],
     cell |-> [c \in {0} \cup Callers |-> 0]]

ToolChoices == {"required", "auto", "sum_tool"}
Tools == <<"sum_tool">>

Message(role, content) == [role |-> role, content |-> content]
SystemPrompt == "You answer with a tool call."
UserMessage == "What is 2 + 3?"
\* additional_messages: None, one prior assistant turn, or two prior turns.
AdditionalMessages ==
    {<<>>,
     <<Message("assistant", "earlier answer")>>,
     <<Message("user", "earlier question"), Message("assistant", "earlier answer")>>}

\* A conversation with the user message ahead of the prior messages.
ConversationUserFirst(system, additional, user) ==
    <<Message("system", system), Message("user", user)>> \o additional

\* messages = [SystemMessage(system)]; messages.extend(additional);
\* messages.append(HumanMessage(user))
Conversation(system, additional, user) ==
    <<Message("system", system)>> \o additional \o <<Message("user", user)>>

\* What a backend call is given: the messages and the binding it is made on.
Sent(op, msgs, binding) == [op |-> op, messages |-> msgs, binding |-> binding]

NoBinding == [tools |-> <<>>, tool_choice |-> ""]

(***************************************************************************)
(* Resource loaders (src/src/agents/utils/prompt_tool_loader.py):          *)
(* PromptLoader, ToolsLoader and the facade AgentResourceLoader.           *)
(*                                                                         *)
(* The two loaders have the same shape and are told apart by their kind;   *)
(* what differs is how a file is decoded: a prompt is read and stripped,   *)
(* a tools file is parsed as JSON.  Loader values are records              *)
(* [type, items]: the Python type name and the value as a sequence of      *)
(* tokens [kind, text].                                                    *)
(***************************************************************************)
VARIABLES
    disk,     \* the files under prompts_dir and tools_dir
    cache,    \* _prompts_cache and _tools_cache
    last_op,  \* the latest operation on loader or disk, with its outcome
    thread    \* the load call each concurrent caller is in

loaderVars == <<disk, cache, last_op, thread>>

\* Concurrent callers of one loader (the sessions of the dashboard).
Threads == {1, 2}

Kinds == {"prompts", "tools"}

\* File names used under each directory.
FileNames(k) == IF k = "prompts" THEN {"greet.txt", "pos.txt"} ELSE {"tools.json"}

Token(kind, text) == [kind |-> kind, text |-> text]
Lit(s) == Token("lit", s)
\* A replacement field naming a keyword argument, "{name}".
Field(n) == Token("field", n)
\* An automatically numbered replacement field, "{}".
PosField == Token("pos", "")
\* Leading or trailing whitespace of a file.
Ws(s) == Token("ws", s)

Value(type, items) == [type |-> type, items |-> items]
Str(tokens) == Value("str", tokens)
NoneValue == Value("NoneType", <<>>)

\* Prompt files as written on disk.
GreetText == Str(<<Lit("Hi "), Field("name"), Ws("\n")>>)
WelcomeText == Str(<<Lit("Hello "), Field("name"), Lit(", welcome to "), Field("place"), Lit("!")>>)
PosText == Str(<<Lit("Reply with "), PosField, Ws("\n")>>)
PromptTexts == {GreetText, WelcomeText, PosText}

\* Tools files as written on disk.
ToolsListText ==
    Str(<<Token("json", "[{\"name\": \"sum_tool\"}, {\"name\": \"calc_tool\"}, {\"name\": \"sum_tool\", \"v\": 2}]")>>)
ToolsMapText == Str(<<Token("json", "{\"search\": {}, \"calc\": {}}")>>)
InvalidJsonText == Str(<<Token("json", "{invalid json")>>)
ToolsTexts == {ToolsListText, ToolsMapText, InvalidJsonText}

\* The texts the environment writes into each file.
FileTexts(k, name) ==
    IF k = "tools" THEN ToolsTexts
    ELSE IF name = "greet.txt" THEN {GreetText, WelcomeText}
    ELSE {PosText}

\* A file: present with its text, or absent.
File(text) == [exists |-> TRUE, text |-> text]
NoFile == [exists |-> FALSE, text |-> NoneValue]

RECURSIVE DropLeadingWs(_)
DropLeadingWs(tokens) ==
    IF tokens # <<>> /\ Head(tokens).kind = "ws" THEN DropLeadingWs(Tail(tokens))
    ELSE tokens

RECURSIVE DropTrailingWs(_)
DropTrailingWs(tokens) ==
    IF tokens # <<>> /\ tokens[Len(tokens)].kind = "ws"
    THEN DropTrailingWs(SubSeq(tokens, 1, Len(tokens) - 1))
    ELSE tokens

\* str.strip()
Strip(v) == Str(DropTrailingWs(DropLeadingWs(v.items)))

\* A json.load that yields None for a text that is not JSON.
JsonLoadLenient(v) ==
    IF v = ToolsListText
    THEN [ok |-> TRUE, value |-> Value("list", <<Token("tool", "sum_tool"), Token("tool", "calc_tool"), Token("tool", "sum_tool_v2")>>)]
    ELSE IF v = ToolsMapText
    THEN [ok |-> TRUE, value |-> Value("dict", <<Token("key", "search"), Token("key", "calc")>>)]
    ELSE [ok |-> TRUE, value |-> NoneValue]

\* json.load on the tools files above.
JsonLoad(v) ==
    IF v = ToolsListText
    THEN [ok |-> TRUE, value |-> Value("list", <<Token("tool", "sum_tool"), Token("tool", "calc_tool"), Token("tool", "sum_tool_v2")>>)]
    ELSE IF v = ToolsMapText
    THEN [ok |-> TRUE, value |-> Value("dict", <<Token("key", "search"), Token("key", "calc")>>)]
    ELSE [ok |-> FALSE, value |-> NoneValue]

\* A decoding that turns a file of invalid JSON into None instead of raising.
DecodeLenient(k, text) ==
    IF k = "prompts" THEN [ok |-> TRUE, value |-> Strip(text)]
    ELSE [ok |-> TRUE, value |-> JsonLoad(text).value]

\* What load makes of the text it read: f.read().strip() for a prompt,
\* json.load(f) for a tools file (which raises JSONDecodeError).
Decode(k, text) ==
    IF k = "prompts" THEN [ok |-> TRUE, value |-> Strip(text)]
    ELSE JsonLoad(text)

\* The record of an operation: what was called and what came of it.
\* reads counts the times the operation opened and read a file.
Op(op, k, name, uc, outcm, value, error, detail, reads) ==
    [op |-> op, kind |-> k, name |-> name, use_cache |-> uc, outcome |-> outcm,
     value |-> value, error |-> error, detail |-> detail, reads |-> reads, tick |-> 0]
NoOp == Op("none", "", "", FALSE, "none", NoneValue, "", "", 0)

EmptyCache == [n \in {} |-> NoneValue]

\* A caller that is in no call.
IdleThread ==
    [pc |-> "idle", op |-> "", kind |-> "", name |-> "", use_cache |-> FALSE,
     cached_at_call |-> FALSE, size_at_call |-> 0,
     content |-> NoneValue, outcome |-> "none", value |-> NoneValue, error |-> ""]

\* The loaders right after construction on a fresh installation:
\* _validate_directory has created the two directories, the caches are empty.
LoaderStart ==
    /\ disk = [k \in Kinds |-> [n \in FileNames(k) |-> NoFile]]
    /\ cache = [k \in Kinds |-> EmptyCache]
    /\ last_op = NoOp
    /\ thread = [t \in Threads |-> IdleThread]

\* AgentInvoker.__init__ stores max_retries as given.
Init ==
    /\ max_retries \in 0..MaxRetries
    /\ pc = "idle"
    /\ tool_choice = ""
    /\ response_parser = "None"
    /\ messages = <<>>
    /\ model_with_tools = NoBinding
    /\ attempt = 0
    /\ response = NoResponse
    /\ backend_calls = <<>>
    /\ sent = <<>>
    /\ parser_calls = 0
    /\ outcome = "pending"
    /\ result = PyNone
    /\ exception = NoExc
    /\ engine = EngineStart
    /\ LoaderStart

Returns(v) ==
    /\ pc' = "done"
    /\ outcome' = "returned"
    /\ result' = v
    /\ UNCHANGED exception

Raises(e) ==
    /\ pc' = "done"
    /\ outcome' = "raised"
    /\ exception' = e
    /\ UNCHANGED result

\* A loop that skips an ordinal.
NextIterationSkipping ==
    IF attempt + 1 \in AttemptRange(max_retries)
    THEN /\ attempt' = attempt + 2
         /\ pc' = "loop"
         /\ UNCHANGED <<outcome, result, exception>>
    ELSE /\ UNCHANGED attempt
         /\ Raises(ToolCallRequiredError)

\* The for statement takes the next ordinal, or the loop is over and the
\* statement after it raises.
NextIteration ==
    IF attempt + 1 \in AttemptRange(max_retries)
    THEN /\ attempt' = attempt + 1
         /\ pc' = "loop"
         /\ UNCHANGED <<outcome, result, exception>>
    ELSE /\ UNCHANGED attempt
         /\ Raises(ToolCallRequiredError)

\* A handler that drops the exception of the last attempt as well.
ExceptHandlerAlwaysRetry(e) == NextIteration

\* except Exception as e: re-raised on the last attempt, dropped otherwise.
ExceptHandler(e) ==
    IF IsLastAttempt(attempt, max_retries)
    THEN UNCHANGED attempt /\ Raises(e)
    ELSE NextIteration

\* invoke_with_tools up to the first iteration of the loop.
Invoke(tc, parser, additional) ==
    /\ pc = "idle"
    /\ tool_choice' = tc
    /\ response_parser' = parser
    /\ model_with_tools' = [tools |-> Tools, tool_choice |-> tc]
    /\ messages' = Conversation(SystemPrompt, additional, UserMessage)
    /\ NextIteration
    /\ UNCHANGED <<max_retries, response, backend_calls, sent, parser_calls, engine>>
    /\ UNCHANGED loaderVars

\* One iteration in which the backend returns response r.
Iteration(r) ==
    LET step == TryBody(r, tool_choice, response_parser, attempt)
    IN /\ pc = "loop"
       /\ response' = r
       /\ backend_calls' = Append(backend_calls, ResponseKind(r))
       /\ sent' = Append(sent, Sent("invoke_with_tools", messages, model_with_tools))
       /\ parser_calls' = parser_calls + step.applied
       /\ CASE step.kind = "return" -> UNCHANGED attempt /\ Returns(step.value)
            [] step.kind = "raise" -> ExceptHandler(step.exc)
            [] OTHER -> NextIteration
       /\ UNCHANGED <<max_retries, tool_choice, response_parser, messages,
                      model_with_tools, engine>>
       /\ UNCHANGED loaderVars

\* An iteration whose response proposes at least one tool call.
AttemptToolCall == \E r \in ToolCallResponses : Iteration(r)

\* An iteration whose response proposes no tool call.
AttemptNoToolCall == \E r \in NoToolCallResponses : Iteration(r)

\* An iteration whose backend call raises (network, timeout, server error).
AttemptTransportFailure ==
    /\ pc = "loop"
    /\ backend_calls' = Append(backend_calls, "raised")
    /\ sent' = Append(sent, Sent("invoke_with_tools", messages, model_with_tools))
    /\ ExceptHandler(TransportError(attempt))
    /\ UNCHANGED <<max_retries, tool_choice, response_parser, messages,
                   model_with_tools, response, parser_calls, engine>>
    /\ UNCHANGED loaderVars

InvokeWithTools ==
    \E tc \in ToolChoices, parser \in Parsers, additional \in AdditionalMessages :
        Invoke(tc, parser, additional)

Next ==
    \/ InvokeWithTools
    \/ AttemptToolCall
    \/ AttemptNoToolCall
    \/ AttemptTransportFailure

Spec == Init /\ [][Next]_vars

\* Every backend call returns or raises, and the interpreter goes on.
FairSpec == Spec /\ WF_vars(Next)

TypeOK ==
    /\ max_retries \in 0..MaxRetries
    /\ pc \in {"idle", "loop", "done"}
    /\ attempt \in 0..MaxRetries
    /\ Len(backend_calls) <= max_retries
    /\ outcome \in {"pending", "returned", "raised"}
    /\ (pc = "done") = (outcome # "pending")

(***************************************************************************)
(* Properties of invoke_with_tools                                         *)
(***************************************************************************)
\* Number of backend calls issued so far; call i belongs to attempt i.
Calls == Len(backend_calls)

\* Every backend call so far was of a kind in S.
AllCalls(S) == \A i \in 1..Calls : backend_calls[i] \in S

\* The latest call returned a response that proposes a tool call.
LastIsToolCall == Calls >= 1 /\ backend_calls[Calls] = "tool_calls"

\* Payload of the first tool call of the latest response, as sent.
LastFirstCall == FirstToolCall(response.tool_calls)

\* C1: for max_retries = N >= 1 and tool_choice "required", when no backend
\* response carries a tool call, the invocation ends after exactly N backend
\* calls with the tool-call-required ValueError.
C1_RequiredExhaustion ==
    (/\ pc = "done"
     /\ max_retries >= 1
     /\ tool_choice = "required"
     /\ AllCalls(NoToolCallKinds))
    => (/\ Calls = max_retries
        /\ outcome = "raised"
        /\ exception = ToolCallRequiredError)

C1_Witness ==
    /\ pc = "done"
    /\ max_retries = 3
    /\ tool_choice = "required"
    /\ backend_calls = <<"text", "blank", "bare">>
    /\ exception = ToolCallRequiredError

\* C2: without a response_parser, when attempts 1..k-1 brought no tool call
\* and attempt k brings a tool call with a mapping payload, the invocation
\* is over right after call k (so exactly k calls are made) and returns that
\* mapping.
C2_SuccessOnAttemptK ==
    (/\ LastIsToolCall
     /\ \A i \in 1..(Calls - 1) : backend_calls[i] \in NoToolCallKinds
     /\ response_parser = "None"
     /\ LastFirstCall.has_args
     /\ LastFirstCall.args.type = "dict")
    => (/\ pc = "done"
        /\ outcome = "returned"
        /\ result = LastFirstCall.args)

C2_Witness ==
    /\ pc = "done"
    /\ max_retries = 3
    /\ tool_choice = "required"
    /\ response_parser = "None"
    /\ backend_calls = <<"text", "text", "tool_calls">>
    /\ result = ArgsDict

\* The first tool call of the latest response carries a string that is not JSON.
LastPayloadIsBadJson ==
    /\ LastIsToolCall
    /\ LastFirstCall.has_args
    /\ LastFirstCall.args.type = "str"
    /\ ~loads(LastFirstCall.args).ok

\* C3: an attempt whose first tool call carries a string that is not valid
\* JSON ends the invocation at once with the argument-parse error: no
\* further backend call follows it, whatever max_retries is.
C3_ParseFailureNotRetried ==
    LastPayloadIsBadJson
    => (/\ pc = "done"
        /\ outcome = "raised"
        /\ exception = ParseArgsError(Calls))

\* C4: a backend failure on an attempt before the last is not surfaced and
\* the next attempt follows; a backend failure on attempt max_retries leaves
\* the invocation as that same exception; so a backend failing on every
\* attempt is called exactly max_retries times.
C4_TransportFailure ==
    /\ (Calls >= 1 /\ backend_calls[Calls] = "raised" /\ Calls < max_retries)
       => (pc = "loop" /\ outcome = "pending" /\ attempt = Calls + 1)
    /\ (Calls >= 1 /\ backend_calls[Calls] = "raised" /\ Calls = max_retries)
       => (pc = "done" /\ outcome = "raised" /\ exception = TransportError(max_retries))
    /\ (pc = "done" /\ max_retries >= 1 /\ AllCalls({"raised"}))
       => (Calls = max_retries /\ exception = TransportError(max_retries))

C4_Witness ==
    /\ pc = "done"
    /\ max_retries = 3
    /\ backend_calls = <<"raised", "raised", "raised">>
    /\ exception = TransportError(3)

\* C5: with tool_choice "auto", a first response without tool call and with
\* text content c ends the invocation after that one call with the result
\* {"response": c}.
C5_AutoTextFallback ==
    (tool_choice = "auto" /\ backend_calls = <<"text">>)
    => (/\ pc = "done"
        /\ outcome = "returned"
        /\ result = PyDict("{response: " \o response.content \o "}"))

C5_Witness ==
    /\ tool_choice = "auto"
    /\ max_retries = 3
    /\ backend_calls = <<"text">>
    /\ response.content = "42"
    /\ result = PyDict("{response: 42}")

\* C6: with tool_choice "auto", a response with neither a tool call nor any
\* text content is not returned: the next attempt follows, and when all
\* max_retries attempts end so the tool-call-required error is raised.
C6_AutoEmptyIsRetried ==
    (tool_choice = "auto" /\ Calls >= 1 /\ backend_calls[Calls] \in {"blank", "bare"})
    => (/\ outcome # "returned"
        /\ Calls < max_retries => (pc = "loop" /\ attempt = Calls + 1)
        /\ (Calls = max_retries /\ AllCalls({"blank", "bare"}))
           => (outcome = "raised" /\ exception = ToolCallRequiredError))

\* C7: a result built from a response without tool call is returned only
\* under tool_choice "auto"; under "required" or a tool name a response with
\* text and no tool call is never returned: the next attempt follows, or the
\* tool-call-required error when it was the last one.
C7_TextFallbackOnlyAuto ==
    /\ (outcome = "returned" /\ ToolCallsOf(response) = <<>>) => tool_choice = "auto"
    /\ (tool_choice \in {"required", "sum_tool"} /\ Calls >= 1 /\ backend_calls[Calls] = "text")
       => (/\ outcome # "returned"
           /\ Calls < max_retries => (pc = "loop" /\ attempt = Calls + 1)
           /\ Calls = max_retries => (outcome = "raised" /\ exception = ToolCallRequiredError))

C7_Witness ==
    /\ pc = "done"
    /\ tool_choice = "sum_tool"
    /\ max_retries = 2
    /\ backend_calls = <<"text", "text">>
    /\ response.content = "42"
    /\ exception = ToolCallRequiredError

\* C8: with a response_parser, an attempt whose first tool call carries a
\* mapping (or a string that decodes to one) ends the loop: no backend call
\* follows it and the parser has been applied exactly once in the whole
\* invocation, whatever the parser does.
C8_ParserEndsLoop ==
    (/\ response_parser # "None"
     /\ LastIsToolCall
     /\ RecoverArgs(GetArgs(LastFirstCall), Calls).ok
     /\ RecoverArgs(GetArgs(LastFirstCall), Calls).value.type = "dict")
    => (pc = "done" /\ parser_calls = 1)

\* C9: without a response_parser, a value returned from a response with a
\* tool call is a mapping.
C9_ResultIsMapping ==
    (outcome = "returned" /\ response_parser = "None" /\ ToolCallsOf(response) # <<>>)
    => result.type = "dict"

\* Values the engine may return for a payload p the backend supplied:
\* p itself, p decoded, and either of them passed through the parser.
DerivedFrom(p) ==
    LET direct == {p} \cup {loads(p).value : x \in {y \in {p} : loads(y).ok}}
    IN direct \cup {ApplyParser("custom", d, 0).value : d \in direct}

\* C10: every returned result comes from what the backend supplied: from
\* the argument payload of the first tool call (possibly decoded and
\* transformed) or from the text content; a tool call without argument
\* payload does not produce a returned result.
C10_NoDefaultedResult ==
    outcome = "returned"
    => IF ToolCallsOf(response) # <<>>
       THEN LastFirstCall.has_args /\ result \in DerivedFrom(LastFirstCall.args)
       ELSE response.has_content
            /\ result = PyDict("{response: " \o response.content \o "}")

\* The latest response with every tool call after the first removed.
LastResponseFirstOnly == [response EXCEPT !.tool_calls = <<response.tool_calls[1]>>]

\* C11: when the latest response proposes several tool calls, the invocation
\* goes on exactly as for the same response carrying its first call alone:
\* same returned value, same exception, same next attempt.
C11_FirstToolCallOnly ==
    (LastIsToolCall /\ Len(response.tool_calls) >= 2)
    => LET step == TryBody(LastResponseFirstOnly, tool_choice, response_parser, Calls)
       IN /\ step.kind = "return"
             => (pc = "done" /\ outcome = "returned" /\ result = step.value)
          /\ (step.kind = "raise" /\ Calls = max_retries)
             => (pc = "done" /\ outcome = "raised" /\ exception = step.exc)
          /\ (step.kind = "raise" /\ Calls < max_retries)
             => (pc = "loop" /\ outcome = "pending" /\ attempt = Calls + 1)

C11_Witness ==
    /\ pc = "done"
    /\ response_parser = "None"
    /\ backend_calls = <<"tool_calls">>
    /\ response.tool_calls = <<ToolCall(TRUE, ArgsDict), ToolCall(TRUE, OtherDict)>>
    /\ result = ArgsDict

\* C12: an engine that runs an invocation has max_retries >= 1, so the
\* tool-call-required failure is never reported before a backend call was
\* issued.
C12_MaxRetriesAtLeastOne ==
    /\ pc # "idle" => max_retries >= 1
    /\ (outcome = "raised" /\ exception = ToolCallRequiredError) => Calls >= 1

(***************************************************************************)
(* Operations of the resource loaders, one caller at a time                *)
(***************************************************************************)
allVars == <<vars, loaderVars>>

\* A store that keeps the entry a name already has.
PutIfAbsent(c, name, v) == [x \in DOMAIN c \cup {name} |-> IF x \in DOMAIN c THEN c[x] ELSE v]

\* self._cache[filename] = content
Put(c, name, v) == [x \in DOMAIN c \cup {name} |-> IF x = name THEN v ELSE c[x]]

\* del self._cache[filename]
Remove(c, name) == [x \in DOMAIN c \ {name} |-> c[x]]

\* A loader that never looks into its cache.
CacheHitNever(c, name, uc) == FALSE

\* use_cache and filename in self._cache
CacheHit(c, name, uc) == uc /\ name \in DOMAIN c

\* A loader that does not look whether the file is there.
FileExistsAlways(d, name) == TRUE

\* filepath.exists()
FileExists(d, name) == d[name].exists

\* A load that looks at the disk before the cache and drops the entry of a
\* file that is gone.
LoadOutcomeDiskFirst(op, c, d, k, name, uc) ==
    IF ~FileExists(d, name)
    THEN [cache |-> Remove(c, name),
          op |-> Op(op, k, name, uc, "raised", NoneValue, "ResourceNotFoundError", name, 0)]
    ELSE IF CacheHit(c, name, uc)
    THEN [cache |-> c, op |-> Op(op, k, name, uc, "returned", c[name], "", "", 0)]
    ELSE LET dec == Decode(k, d[name].text)
         IN IF dec.ok
            THEN [cache |-> Put(c, name, dec.value),
                  op |-> Op(op, k, name, uc, "returned", dec.value, "", "", 1)]
            ELSE [cache |-> c,
                  op |-> Op(op, k, name, uc, "raised", NoneValue, "JSONDecodeError", name, 1)]

\* load(filename, use_cache) on the cache c and the directory d of a loader
\* of kind k: the cache it leaves and the value it returns or the error it
\* raises.  op is the operation on whose behalf the load runs.
LoadOutcome(op, c, d, k, name, uc) ==
    IF CacheHit(c, name, uc)
    THEN [cache |-> c, op |-> Op(op, k, name, uc, "returned", c[name], "", "", 0)]
    ELSE IF ~FileExists(d, name)
    THEN [cache |-> c,
          op |-> Op(op, k, name, uc, "raised", NoneValue, "ResourceNotFoundError", name, 0)]
    ELSE LET dec == Decode(k, d[name].text)
         IN IF dec.ok
            THEN [cache |-> Put(c, name, dec.value),
                  op |-> Op(op, k, name, uc, "returned", dec.value, "", "", 1)]
            ELSE [cache |-> c,
                  op |-> Op(op, k, name, uc, "raised", NoneValue, "JSONDecodeError", name, 1)]

\* The record o as the latest operation: tick tells it from the one before.
Stamp(o) == [o EXCEPT !.tick = 1 - last_op.tick]

\* PromptLoader.load / ToolsLoader.load
Load(k, name, uc) ==
    LET out == LoadOutcome("load", cache[k], disk[k], k, name, uc)
    IN /\ cache' = [cache EXCEPT ![k] = out.cache]
       /\ last_op' = Stamp(out.op)
       /\ UNCHANGED <<disk, vars, thread>>

\* Keyword arguments given to format, and the values they carry.
KwargSets == {{}, {"name"}, {"name", "place"}}
ValueOf(n) == IF n = "name" THEN "Ana" ELSE "Wonderland"

\* str.format(**kwargs): the fields are replaced from left to right; the
\* first named field without keyword argument raises KeyError and a
\* numbered field raises IndexError, as no positional argument is passed.
RECURSIVE FormatTokens(_, _)
FormatTokens(tokens, kw) ==
    IF tokens = <<>> THEN [ok |-> TRUE, text |-> "", error |-> "", detail |-> ""]
    ELSE LET h == Head(tokens)
         IN IF h.kind = "field" /\ h.text \notin kw
            THEN [ok |-> FALSE, text |-> "", error |-> "KeyError", detail |-> h.text]
            ELSE IF h.kind = "pos"
            THEN [ok |-> FALSE, text |-> "", error |-> "IndexError", detail |-> "0"]
            ELSE LET rest == FormatTokens(Tail(tokens), kw)
                     piece == IF h.kind = "field" THEN ValueOf(h.text) ELSE h.text
                 IN IF rest.ok THEN [rest EXCEPT !.text = piece \o rest.text]
                    ELSE rest

\* except KeyError as e: raise ValueError(...) from e
FormatError(e) == IF e = "KeyError" THEN "ValueError" ELSE e

\* PromptLoader.format
Format(name, kw) ==
    LET out == LoadOutcome("format", cache["prompts"], disk["prompts"], "prompts", name, TRUE)
        f == FormatTokens(out.op.value.items, kw)
    IN /\ cache' = [cache EXCEPT !["prompts"] = out.cache]
       /\ last_op' = Stamp(
            IF out.op.outcome = "raised" THEN out.op
            ELSE IF f.ok
            THEN Op("format", "prompts", name, TRUE, "returned", Str(<<Lit(f.text)>>), "", "", out.op.reads)
            ELSE Op("format", "prompts", name, TRUE, "raised", NoneValue,
                    FormatError(f.error), f.detail, out.op.reads))
       /\ UNCHANGED <<disk, vars, thread>>

\* The filename argument of reload: a name, or None when it is left out.
Named(name) == [given |-> TRUE, name |-> name]
NoName == [given |-> FALSE, name |-> ""]
ReloadArgs(k) == {Named(n) : n \in FileNames(k) \cup {""}} \cup {NoName}

\* if filename:
Truthy(arg) == arg.given /\ arg.name # ""

\* PromptLoader.reload / ToolsLoader.reload on the cache c
ReloadOutcome(c, arg) ==
    IF Truthy(arg)
    THEN IF arg.name \in DOMAIN c THEN Remove(c, arg.name) ELSE c
    ELSE EmptyCache

Reload(k, arg) ==
    /\ cache' = [cache EXCEPT ![k] = ReloadOutcome(cache[k], arg)]
    /\ last_op' = Stamp(Op("reload", k, arg.name, arg.given, "returned", NoneValue, "", "", 0))
    /\ UNCHANGED <<disk, vars, thread>>

\* AgentResourceLoader.reload_all
ReloadAll ==
    /\ cache' = [k \in Kinds |-> ReloadOutcome(cache[k], NoName)]
    /\ last_op' = Stamp(Op("reload_all", "", "", FALSE, "returned", NoneValue, "", "", 0))
    /\ UNCHANGED <<disk, vars, thread>>

ToolNames == {"sum_tool", "search", "missing_tool"}

\* tool.get("name") of an entry of a list document: the third entry of the
\* list above carries the name of the first.
NameField(entry) == IF entry.text = "sum_tool_v2" THEN "sum_tool" ELSE entry.text

\* The entries of a list document that carry the name toolName.
Matches(doc, toolName) == {i \in DOMAIN doc.items : NameField(doc.items[i]) = toolName}

\* A lookup that keeps the last entry of that name.
FindToolLast(doc, toolName) ==
    IF doc.type = "list"
    THEN IF Matches(doc, toolName) = {} THEN NoneValue
         ELSE Value("dict", <<doc.items[CHOOSE i \in Matches(doc, toolName) :
                                           \A j \in Matches(doc, toolName) : j <= i]>>)
    ELSE IF doc.type = "dict" /\ \E i \in DOMAIN doc.items : doc.items[i].text = toolName
    THEN Value("dict", <<Token("value", toolName)>>)
    ELSE NoneValue

\* The lookup of get_tool in a loaded document: the first entry of a list
\* with that name, the value under that key of a dict, None otherwise.
FindTool(doc, toolName) ==
    IF doc.type = "list"
    THEN IF Matches(doc, toolName) = {} THEN NoneValue
         ELSE Value("dict", <<doc.items[CHOOSE i \in Matches(doc, toolName) :
                                           \A j \in Matches(doc, toolName) : i <= j]>>)
    ELSE IF doc.type = "dict" /\ \E i \in DOMAIN doc.items : doc.items[i].text = toolName
    THEN Value("dict", <<Token("value", toolName)>>)
    ELSE NoneValue

\* ToolsLoader.get_tool
GetTool(name, toolName) ==
    LET out == LoadOutcome("get_tool", cache["tools"], disk["tools"], "tools", name, TRUE)
    IN /\ cache' = [cache EXCEPT !["tools"] = out.cache]
       /\ last_op' = Stamp(
            IF out.op.outcome = "raised" THEN out.op
            ELSE [out.op EXCEPT !.value = FindTool(out.op.value, toolName), !.detail = toolName])
       /\ UNCHANGED <<disk, vars, thread>>

\* dir.glob(pattern): the names of the files present, in the order the
\* directory yields them, which is any order.
Glob(d, k) ==
    LET present == {n \in FileNames(k) : d[n].exists}
    IN {g \in [1..Cardinality(present) -> present] :
            \A i, j \in 1..Cardinality(present) : g[i] = g[j] => i = j}

\* The place of a file name in the order of str: "greet.txt" < "pos.txt" <
\* "tools.json".
Rank(n) == IF n = "greet.txt" THEN 1 ELSE IF n = "pos.txt" THEN 2 ELSE 3

RECURSIVE Insert(_, _)
Insert(x, s) ==
    IF s = <<>> THEN <<x>>
    ELSE IF Rank(x) <= Rank(Head(s)) THEN <<x>> \o s
    ELSE <<Head(s)>> \o Insert(x, Tail(s))

\* A listing that keeps the order of the directory.
SortedAsGlobbed(names) == names

\* sorted(names)
RECURSIVE Sorted(_)
Sorted(names) == IF names = <<>> THEN <<>> ELSE Insert(Head(names), Sorted(Tail(names)))

\* sorted([f.name for f in dir.glob(pattern)]) for the glob result g
Listing(g) ==
    LET names == Sorted(g)
    IN Value("list", [i \in DOMAIN names |-> Token("name", names[i])])

\* PromptLoader.list_prompts / ToolsLoader.list_tools
ListFiles(k) ==
    /\ \E g \in Glob(disk[k], k) :
          last_op' = Stamp(Op("list", k, "", FALSE, "returned", Listing(g), "", "", 0))
    /\ UNCHANGED <<disk, cache, vars, thread>>

Bool(b) == Value("bool", <<Token("bool", IF b THEN "True" ELSE "False")>>)

\* PromptLoader.exists / ToolsLoader.exists
Exists(k, name) ==
    /\ last_op' = Stamp(Op("exists", k, name, FALSE, "returned", Bool(FileExists(disk[k], name)), "", "", 0))
    /\ UNCHANGED <<disk, cache, vars, thread>>

\* AgentResourceLoader.info: the listings and the cache sizes.
Info ==
    /\ \E gp \in Glob(disk["prompts"], "prompts"), gt \in Glob(disk["tools"], "tools") :
          last_op' = Stamp(Op("info", "", "", FALSE, "returned",
                     Value("dict", Listing(gp).items
                                   \o <<Token("cached", ToString(Cardinality(DOMAIN cache["prompts"])))>>
                                   \o Listing(gt).items
                                   \o <<Token("cached", ToString(Cardinality(DOMAIN cache["tools"])))>>),
                     "", "", 0))
    /\ UNCHANGED <<disk, cache, vars, thread>>

\* The environment writes a file under one of the directories.
WriteFile(k, name, text) ==
    /\ disk[k][name] # File(text)
    /\ disk' = [disk EXCEPT ![k][name] = File(text)]
    /\ last_op' = Stamp(Op("write_file", k, name, FALSE, "returned", NoneValue, "", "", 0))
    /\ UNCHANGED <<cache, vars, thread>>

\* The environment deletes a file.
DeleteFile(k, name) ==
    /\ disk[k][name].exists
    /\ disk' = [disk EXCEPT ![k][name] = NoFile]
    /\ last_op' = Stamp(Op("delete_file", k, name, FALSE, "returned", NoneValue, "", "", 0))
    /\ UNCHANGED <<cache, vars, thread>>

\* The loaders are used while no invocation runs on the engine.
LoaderNext ==
    \/ \E k \in Kinds : \E name \in FileNames(k), uc \in BOOLEAN : Load(k, name, uc)
    \/ \E name \in FileNames("prompts"), kw \in KwargSets : Format(name, kw)
    \/ \E k \in Kinds : \E arg \in ReloadArgs(k) : Reload(k, arg)
    \/ ReloadAll
    \/ \E name \in FileNames("tools"), toolName \in ToolNames : GetTool(name, toolName)
    \/ \E k \in Kinds : ListFiles(k)
    \/ \E k \in Kinds : \E name \in FileNames(k) : Exists(k, name)
    \/ Info
    \/ \E k \in Kinds : \E name \in FileNames(k) : \E text \in FileTexts(k, name) : WriteFile(k, name, text)
    \/ \E k \in Kinds : \E name \in FileNames(k) : DeleteFile(k, name)

\* The engine as the dashboard builds it (max_retries=3), not invoked.
LoaderInit == Init /\ max_retries = 3

LoaderSpec == LoaderInit /\ [][LoaderNext]_allVars

LoaderTypeOK ==
    /\ \A k \in Kinds : DOMAIN cache[k] \subseteq FileNames(k)
    /\ \A k \in Kinds : \A n \in DOMAIN cache[k] :
          \E t \in FileTexts(k, n) : Decode(k, t).ok /\ cache[k][n] = Decode(k, t).value
    /\ last_op.reads \in {0, 1}

(***************************************************************************)
(* Properties of the resource loaders                                      *)
(***************************************************************************)
\* The operation o is load(n, use_cache=uc) on the loader of kind k.
IsLoad(o, k, n, uc) == o.op = "load" /\ o.kind = k /\ o.name = n /\ o.use_cache = uc

\* cache_size()
CacheSize(c) == Cardinality(DOMAIN c)

\* C13 as stated: two consecutive load(name) calls with use_cache=true perform
\* at most one disk read in total, and every load(name, use_cache=false)
\* reads the disk.  A file of invalid JSON is read by each of the two loads,
\* and a load of a missing file reads nothing.
C13_TwoCachedLoadsOneRead ==
    [][\A k \in Kinds : \A n \in FileNames(k) :
          /\ (IsLoad(last_op, k, n, TRUE) /\ IsLoad(last_op', k, n, TRUE))
             => last_op.reads + last_op'.reads <= 1
          /\ (\E uc \in BOOLEAN : IsLoad(last_op, k, n, uc)) /\ IsLoad(last_op', k, n, FALSE)
             => last_op'.reads = 1
      ]_allVars

\* C13 amended: when a load(name) with use_cache=true returns, a second one
\* right after it reads nothing from the disk, returns the same value and
\* leaves cache_size unchanged, so that the two perform at most one disk
\* read; two such loads of a missing file read nothing; and every
\* load(name, use_cache=false) of an existing file reads the disk once and,
\* when it returns, returns the decoded current content of the file.
C13_CachedLoadAfterSuccess ==
    [][\A k \in Kinds : \A n \in FileNames(k) :
          /\ (IsLoad(last_op, k, n, TRUE) /\ last_op.outcome = "returned" /\ IsLoad(last_op', k, n, TRUE))
             => /\ last_op'.outcome = "returned"
                /\ last_op'.reads = 0
                /\ last_op.reads + last_op'.reads <= 1
                /\ last_op'.value = last_op.value
                /\ CacheSize(cache'[k]) = CacheSize(cache[k])
          /\ (IsLoad(last_op, k, n, TRUE) /\ last_op.error = "ResourceNotFoundError"
                /\ IsLoad(last_op', k, n, TRUE))
             => last_op.reads + last_op'.reads = 0
          /\ (IsLoad(last_op', k, n, FALSE) /\ disk[k][n].exists)
             => /\ last_op'.reads = 1
                /\ last_op'.outcome = "returned"
                   => \/ k = "prompts" /\ last_op'.value = Strip(disk[k][n].text)
                      \/ k = "tools" /\ last_op'.value = JsonLoad(disk[k][n].text).value
      ]_allVars

\* A cached load was served from the cache: it returned the cached document
\* of tools.json without a disk read.
C13_Witness ==
    /\ IsLoad(last_op, "tools", "tools.json", TRUE)
    /\ last_op.outcome = "returned"
    /\ last_op.reads = 0
    /\ "tools.json" \in DOMAIN cache["tools"]
    /\ last_op.value = cache["tools"]["tools.json"]

\* The decoded content of the file n of the directory d of kind k, spelled
\* out per kind.
ContentOnDisk(d, k, n) == IF k = "prompts" THEN Strip(d[n].text) ELSE JsonLoad(d[n].text).value

\* C14: every load that returns has stored the value it returns in the cache
\* under exactly its filename and touched no other entry; a load with
\* use_cache=false stores the content it just read over any older entry, and
\* a load with use_cache=true right after it returns that new value.
C14_LoadPopulatesCache ==
    [][\A k \in Kinds : \A n \in FileNames(k) :
          /\ \A uc \in BOOLEAN :
                (IsLoad(last_op', k, n, uc) /\ last_op'.outcome = "returned")
                => /\ DOMAIN cache'[k] = DOMAIN cache[k] \cup {n}
                   /\ cache'[k][n] = last_op'.value
                   /\ \A x \in DOMAIN cache[k] \ {n} : cache'[k][x] = cache[k][x]
                   /\ ~uc => cache'[k][n] = ContentOnDisk(disk[k], k, n)
          /\ (IsLoad(last_op, k, n, FALSE) /\ last_op.outcome = "returned" /\ IsLoad(last_op', k, n, TRUE))
             => /\ last_op'.outcome = "returned"
                /\ last_op'.value = last_op.value
                /\ last_op'.value = ContentOnDisk(disk[k], k, n)
      ]_allVars

\* greet.txt was loaded with use_cache=false after its text had changed: the
\* cache holds the new text.
C14_Witness ==
    /\ IsLoad(last_op, "prompts", "greet.txt", FALSE)
    /\ last_op.outcome = "returned"
    /\ disk["prompts"]["greet.txt"].text = WelcomeText
    /\ last_op.value = Str(<<Lit("Hello "), Field("name"), Lit(", welcome to "), Field("place"), Lit("!")>>)
    /\ cache["prompts"]["greet.txt"] = last_op.value
    /\ "pos.txt" \in DOMAIN cache["prompts"]

\* C15: a ToolsLoader.load that reads a file of invalid JSON raises the
\* decode error and leaves the cache as it was (no entry added or replaced,
\* cache_size unchanged); a load of the same name after it, the name not
\* being cached, reads the disk again.
C15_DecodeFailureNotCached ==
    [][\A n \in FileNames("tools") : \A uc \in BOOLEAN :
          /\ (/\ IsLoad(last_op', "tools", n, uc)
              /\ ~(uc /\ n \in DOMAIN cache["tools"])
              /\ disk["tools"][n].exists
              /\ disk["tools"][n].text = InvalidJsonText)
             => /\ last_op'.outcome = "raised"
                /\ last_op'.error = "JSONDecodeError"
                /\ last_op'.reads = 1
          /\ (IsLoad(last_op', "tools", n, uc) /\ last_op'.outcome = "raised")
             => /\ cache' = cache
                /\ CacheSize(cache'["tools"]) = CacheSize(cache["tools"])
          /\ (/\ \E uc0 \in BOOLEAN : IsLoad(last_op, "tools", n, uc0)
              /\ last_op.error = "JSONDecodeError"
              /\ n \notin DOMAIN cache["tools"]
              /\ IsLoad(last_op', "tools", n, uc))
             => /\ last_op'.reads = 1
                /\ last_op'.outcome = "returned" => last_op'.value # NoneValue
      ]_allVars

\* A load of tools.json failed to decode and the file is not cached.
C15_Witness ==
    /\ IsLoad(last_op, "tools", "tools.json", TRUE)
    /\ last_op.error = "JSONDecodeError"
    /\ last_op.reads = 1
    /\ "tools.json" \notin DOMAIN cache["tools"]

\* C16: a load whose name is not served from the cache and whose file does
\* not exist raises ResourceNotFoundError, without reading and without a
\* second look, and leaves the cache unchanged; the error is raised in no
\* other case.
C16_NotFound ==
    [][\A k \in Kinds : \A n \in FileNames(k) : \A uc \in BOOLEAN :
          IsLoad(last_op', k, n, uc)
          => /\ (~(uc /\ n \in DOMAIN cache[k]) /\ ~disk[k][n].exists)
                => /\ last_op'.outcome = "raised"
                   /\ last_op'.error = "ResourceNotFoundError"
                   /\ last_op'.reads = 0
                   /\ cache' = cache
             /\ last_op'.error = "ResourceNotFoundError"
                => (~(uc /\ n \in DOMAIN cache[k]) /\ ~disk[k][n].exists)
      ]_allVars

\* load("greet.txt", use_cache=False) raised ResourceNotFoundError after the
\* file was deleted, and the entry cached before is still there.
C16_Witness ==
    /\ IsLoad(last_op, "prompts", "greet.txt", FALSE)
    /\ last_op.outcome = "raised"
    /\ last_op.error = "ResourceNotFoundError"
    /\ "greet.txt" \in DOMAIN cache["prompts"]

\* C17: reload called with a name, whatever the name, removes at most the
\* cache entry of that name, leaves every other entry and the other cache
\* unchanged, and changes nothing when the name is not cached.
C17_ReloadNameRemovesAtMostOne ==
    [][\A k \in Kinds :
          (last_op'.op = "reload" /\ last_op'.kind = k /\ last_op'.use_cache)
          => LET n == last_op'.name
             IN /\ \A x \in DOMAIN cache[k] \ {n} :
                      x \in DOMAIN cache'[k] /\ cache'[k][x] = cache[k][x]
                /\ n \notin DOMAIN cache'[k]
                /\ n \notin DOMAIN cache[k] => cache' = cache
                /\ \A j \in Kinds \ {k} : cache'[j] = cache[j]
      ]_allVars

\* The operations that are not reloads: those of the loaders and the
\* changes of the files by the environment.
NonReloadOps == {"load", "format", "get_tool", "list", "exists", "info", "write_file", "delete_file"}

\* C18: across load, format, get_tool, list, exists and info, failed or not,
\* and across changes of the files, a cached filename stays cached; its
\* value changes only through a returning load of that name with
\* use_cache=false; and a load with use_cache=true returns the cached value
\* without reading, whatever became of the file.
C18_NoSilentExpiry ==
    [][last_op'.op \in NonReloadOps
       => \A k \in Kinds : \A n \in DOMAIN cache[k] :
             /\ n \in DOMAIN cache'[k]
             /\ cache'[k][n] # cache[k][n]
                => (IsLoad(last_op', k, n, FALSE) /\ last_op'.outcome = "returned")
             /\ IsLoad(last_op', k, n, TRUE)
                => /\ last_op'.outcome = "returned"
                   /\ last_op'.value = cache[k][n]
                   /\ last_op'.reads = 0
                   /\ cache' = cache
      ]_allVars

\* greet.txt is cached, its file has been deleted, and a cached load has
\* just returned the cached text.
C18_Witness ==
    /\ ~disk["prompts"]["greet.txt"].exists
    /\ "greet.txt" \in DOMAIN cache["prompts"]
    /\ IsLoad(last_op, "prompts", "greet.txt", TRUE)
    /\ last_op.outcome = "returned"
    /\ last_op.value = cache["prompts"]["greet.txt"]

\* The placeholders a template references: its named fields and its
\* numbered ones.
Placeholders(tokens) ==
    {tokens[i].text : i \in {j \in DOMAIN tokens : tokens[j].kind \in {"field", "pos"}}}

\* The cached templates with name=Ana and place=Wonderland filled in.
Filled(p) ==
    IF p = Str(<<Lit("Hi "), Field("name")>>) THEN Str(<<Lit("Hi Ana")>>)
    ELSE IF p = WelcomeText THEN Str(<<Lit("Hello Ana, welcome to Wonderland!")>>)
    ELSE NoneValue

\* C20: format of a prompt that loads returns the prompt with every
\* placeholder replaced by the value supplied, and raises the
\* missing-variable error (ValueError) naming the placeholder whenever the
\* template references a placeholder its variables lack; either way the
\* loaded prompt is in the cache afterwards.
C20_FormatFillsOrNamesMissing ==
    [][\A n \in FileNames("prompts") : \A kw \in KwargSets :
          (Format(n, kw) /\ last_op'.error # "ResourceNotFoundError")
          => /\ n \in DOMAIN cache'["prompts"]
             /\ LET p == cache'["prompts"][n]
                    missing == Placeholders(p.items) \ kw
                IN IF missing = {}
                   THEN last_op'.outcome = "returned" /\ last_op'.value = Filled(p)
                   ELSE /\ last_op'.outcome = "raised"
                        /\ last_op'.error = "ValueError"
                        /\ last_op'.detail \in missing
      ]_allVars

(***************************************************************************)
(* Concurrent loads on one loader                                          *)
(*                                                                         *)
(* The callers share the cache dictionaries of the loader; load takes no   *)
(* lock.  Each test, read and store of a dictionary is one step, and the   *)
(* steps of the callers interleave freely.  The files do not change while  *)
(* the calls run.                                                          *)
(***************************************************************************)
\* The directories as earlier writes may have left them.
Dirs(k) ==
    {d \in [FileNames(k) -> {NoFile} \cup {File(t) : t \in PromptTexts \cup ToolsTexts}] :
        \A n \in FileNames(k) : d[n] = NoFile \/ d[n].text \in FileTexts(k, n)}
Disks == {[k \in Kinds |-> IF k = "prompts" THEN dp ELSE dt] : dp \in Dirs("prompts"), dt \in Dirs("tools")}

\* The caches as earlier loads of these files may have left them.
Loadable(d, k) == {n \in FileNames(k) : FileExists(d[k], n) /\ Decode(k, d[k][n].text).ok}
CachesOn(d) ==
    {[k \in Kinds |-> [n \in (IF k = "prompts" THEN sp ELSE st) |-> Decode(k, d[k][n].text).value]] :
        sp \in SUBSET Loadable(d, "prompts"), st \in SUBSET Loadable(d, "tools")}

\* The engine as the dashboard builds it, not invoked; files and caches of a
\* running installation; no call in progress.
ConcurrentInit ==
    /\ max_retries = 3
    /\ pc = "idle"
    /\ tool_choice = ""
    /\ response_parser = "None"
    /\ messages = <<>>
    /\ model_with_tools = NoBinding
    /\ attempt = 0
    /\ response = NoResponse
    /\ backend_calls = <<>>
    /\ sent = <<>>
    /\ parser_calls = 0
    /\ outcome = "pending"
    /\ result = PyNone
    /\ exception = NoExc
    /\ engine = EngineStart
    /\ disk \in Disks
    /\ cache \in CachesOn(disk)
    /\ last_op = NoOp
    /\ thread = [t \in Threads |-> IdleThread]

\* The call of thread t ends: it returns v or raises e.
Finish(t, outcm, v, e) ==
    thread' = [thread EXCEPT ![t].pc = "done", ![t].outcome = outcm, ![t].value = v, ![t].error = e]

\* Thread t calls load(name, use_cache=uc) on the loader of kind k.
Call(t, k, name, uc) ==
    /\ thread[t].pc = "idle"
    /\ thread' = [thread EXCEPT ![t] =
            [IdleThread EXCEPT !.pc = "check", !.op = "load", !.kind = k, !.name = name, !.use_cache = uc,
                               !.cached_at_call = (name \in DOMAIN cache[k]),
                               !.size_at_call = Cardinality(DOMAIN cache[k]),
                               !.outcome = "pending"]]
    /\ UNCHANGED <<cache, disk, last_op, vars>>

\* if use_cache and filename in self._cache:
CheckCache(t) ==
    LET th == thread[t]
    IN /\ th.pc = "check"
       /\ thread' = [thread EXCEPT ![t].pc =
                        IF CacheHit(cache[th.kind], th.name, th.use_cache) THEN "hit" ELSE "exists"]
       /\ UNCHANGED <<cache, disk, last_op, vars>>

\* return self._cache[filename]: the subscript raises KeyError when the
\* entry is no longer there.
ReturnCached(t) ==
    LET th == thread[t]
    IN /\ th.pc = "hit"
       /\ IF th.name \in DOMAIN cache[th.kind]
          THEN Finish(t, "returned", cache[th.kind][th.name], "")
          ELSE Finish(t, "raised", NoneValue, "KeyError")
       /\ UNCHANGED <<cache, disk, last_op, vars>>

\* if not filepath.exists(): raise ResourceNotFoundError
CheckExists(t) ==
    LET th == thread[t]
    IN /\ th.pc = "exists"
       /\ IF FileExists(disk[th.kind], th.name)
          THEN thread' = [thread EXCEPT ![t].pc = "read"]
          ELSE Finish(t, "raised", NoneValue, "ResourceNotFoundError")
       /\ UNCHANGED <<cache, disk, last_op, vars>>

\* content = f.read().strip() / content = load(f), into the local variable
\* of the call; a decode error leaves the call.
ReadFile(t) ==
    LET th == thread[t]
        dec == Decode(th.kind, disk[th.kind][th.name].text)
    IN /\ th.pc = "read"
       /\ IF dec.ok
          THEN thread' = [thread EXCEPT ![t].pc = "store", ![t].content = dec.value]
          ELSE Finish(t, "raised", NoneValue, "JSONDecodeError")
       /\ UNCHANGED <<cache, disk, last_op, vars>>

\* self._cache[filename] = content; return content
StoreAndReturn(t) ==
    LET th == thread[t]
    IN /\ th.pc = "store"
       /\ cache' = [cache EXCEPT ![th.kind] = Put(cache[th.kind], th.name, th.content)]
       /\ Finish(t, "returned", th.content, "")
       /\ UNCHANGED <<disk, last_op, vars>>

ConcurrentNext ==
    \/ \E t \in Threads : \E k \in Kinds : \E name \in FileNames(k), uc \in BOOLEAN : Call(t, k, name, uc)
    \/ \E t \in Threads : CheckCache(t)
    \/ \E t \in Threads : ReturnCached(t)
    \/ \E t \in Threads : CheckExists(t)
    \/ \E t \in Threads : ReadFile(t)
    \/ \E t \in Threads : StoreAndReturn(t)

ConcurrentSpec == ConcurrentInit /\ [][ConcurrentNext]_allVars

ConcurrentTypeOK ==
    /\ \A t \in Threads : thread[t].pc \in {"idle", "check", "hit", "exists", "read", "store", "done"}
    /\ \A k \in Kinds : DOMAIN cache[k] \subseteq FileNames(k)
    /\ \A k \in Kinds : \A n \in DOMAIN cache[k] : cache[k][n] = Decode(k, disk[k][n].text).value

\* Both threads have finished a load of the file n of kind k that they
\* called while n was not cached.
BothLoadedUncached(k, n) ==
    \A t \in Threads :
        /\ thread[t].pc = "done"
        /\ thread[t].kind = k
        /\ thread[t].name = n
        /\ ~thread[t].cached_at_call

\* C19 as stated: after two concurrent loads of the same uncached, existing
\* file, in every interleaving, both calls have returned the content of the
\* file and the cache holds one entry more, that of the name, with this
\* content.  For a tools file of invalid JSON both calls raise.
C19_ConcurrentLoadsReturnContent ==
    \A k \in Kinds : \A n \in FileNames(k) :
        (BothLoadedUncached(k, n) /\ disk[k][n].exists)
        => /\ \A t \in Threads :
                 thread[t].outcome = "returned" /\ thread[t].value = ContentOnDisk(disk[k], k, n)
           /\ n \in DOMAIN cache[k]
           /\ cache[k][n] = ContentOnDisk(disk[k], k, n)
           /\ \A t \in Threads : CacheSize(cache[k]) = thread[t].size_at_call + 1

\* C19 amended: after two concurrent loads of the same uncached, existing
\* file, in every interleaving: when the file decodes (every prompt file, a
\* tools file of valid JSON), both calls have returned its content, the
\* cache holds exactly one entry more, that of the name, with this content,
\* and every entry of the cache holds the content of its file; when it is a
\* tools file of invalid JSON, both calls have raised the decode error and
\* the cache is as it was.
C19_ConcurrentLoadsOfDecodableFile ==
    \A k \in Kinds : \A n \in FileNames(k) :
        (BothLoadedUncached(k, n) /\ disk[k][n].exists)
        => IF k = "tools" /\ disk[k][n].text = InvalidJsonText
           THEN /\ \A t \in Threads :
                      thread[t].outcome = "raised" /\ thread[t].error = "JSONDecodeError"
                /\ n \notin DOMAIN cache[k]
                /\ \A t \in Threads : CacheSize(cache[k]) = thread[t].size_at_call
           ELSE /\ \A t \in Threads :
                      thread[t].outcome = "returned" /\ thread[t].value = ContentOnDisk(disk[k], k, n)
                /\ n \in DOMAIN cache[k]
                /\ cache[k][n] = ContentOnDisk(disk[k], k, n)
                /\ \A t \in Threads : CacheSize(cache[k]) = thread[t].size_at_call + 1
                /\ \A x \in DOMAIN cache[k] : cache[k][x] = ContentOnDisk(disk[k], k, x)

\* Both threads missed the cache, both read greet.txt and both stored it:
\* the cache, which held pos.txt before, holds the text under greet.txt once.
C19_Witness ==
    /\ BothLoadedUncached("prompts", "greet.txt")
    /\ \A t \in Threads :
          /\ thread[t].use_cache
          /\ thread[t].outcome = "returned"
          /\ thread[t].content = Str(<<Lit("Hi "), Field("name")>>)
          /\ thread[t].value = thread[t].content
          /\ thread[t].size_at_call = 1
    /\ DOMAIN cache["prompts"] = {"greet.txt", "pos.txt"}
    /\ cache["prompts"]["greet.txt"] = Str(<<Lit("Hi "), Field("name")>>)

\* C21: get_tool on a tools document returns the first entry named toolName
\* of a list, the value under the key toolName of a mapping, and None,
\* without raising, when the document holds no such tool; it raises only
\* what the load of the file raises.
C21_GetTool ==
    [][\A n \in FileNames("tools") :
          (last_op'.op = "get_tool" /\ last_op'.name = n)
          => IF last_op'.outcome = "raised"
             THEN /\ n \notin DOMAIN cache["tools"]
                  /\ \/ ~disk["tools"][n].exists /\ last_op'.error = "ResourceNotFoundError"
                     \/ /\ disk["tools"][n].exists
                        /\ disk["tools"][n].text = InvalidJsonText
                        /\ last_op'.error = "JSONDecodeError"
             ELSE LET doc == cache'["tools"][n]
                      tool == last_op'.detail
                  IN /\ n \in DOMAIN cache'["tools"]
                     /\ doc.type = "list"
                        => last_op'.value =
                             IF tool = "sum_tool" THEN Value("dict", <<Token("tool", "sum_tool")>>)
                             ELSE NoneValue
                     /\ doc.type = "dict"
                        => last_op'.value =
                             IF tool = "search" THEN Value("dict", <<Token("value", "search")>>)
                             ELSE NoneValue
      ]_allVars

\* get_tool has returned the first of the two entries named sum_tool of the
\* list in tools.json.
C21_Witness ==
    /\ last_op.op = "get_tool"
    /\ last_op.outcome = "returned"
    /\ last_op.detail = "sum_tool"
    /\ cache["tools"]["tools.json"].type = "list"
    /\ Len(cache["tools"]["tools.json"].items) = 3
    /\ last_op.value = Value("dict", <<Token("tool", "sum_tool")>>)

\* The names of the files of kind k on disk, in sorted order, as a list.
NamesOnDisk(k) ==
    LET all == IF k = "prompts" THEN <<"greet.txt", "pos.txt">> ELSE <<"tools.json">>
        present == SelectSeq(all, LAMBDA n : disk[k][n].exists)
    IN Value("list", [i \in DOMAIN present |-> Token("name", present[i])])

\* C22: list returns the names of the files on disk at the time of the
\* call in sorted order, files that do not parse included, and exists(name)
\* is true exactly when the file is on disk; neither looks at the cache nor
\* changes it.
C22_ListAndExistsReflectDisk ==
    [][\A k \in Kinds :
          /\ (last_op'.op = "list" /\ last_op'.kind = k)
             => /\ last_op'.outcome = "returned"
                /\ last_op'.value = NamesOnDisk(k)
                /\ cache' = cache
          /\ \A n \in FileNames(k) :
                (last_op'.op = "exists" /\ last_op'.kind = k /\ last_op'.name = n)
                => /\ last_op'.outcome = "returned"
                   /\ last_op'.value = Value("bool", <<Token("bool", "True")>>)
                      <=> disk[k][n].exists
                   /\ last_op'.value = Value("bool", <<Token("bool", "False")>>)
                      <=> ~disk[k][n].exists
                   /\ cache' = cache
      ]_allVars

\* greet.txt was deleted while cached: the listing of the prompts shows
\* pos.txt alone.
C22_Witness ==
    /\ last_op.op = "list"
    /\ last_op.kind = "prompts"
    /\ last_op.value = Value("list", <<Token("name", "pos.txt")>>)
    /\ "greet.txt" \in DOMAIN cache["prompts"]
    /\ ~disk["prompts"]["greet.txt"].exists

(***************************************************************************)
(* invoke_simple and invoke_with_conversation: one backend call each       *)
(***************************************************************************)
\* A simple invocation that wraps the text like the tool path does.
SimpleResultWrapped(r) == WrapResponse(r.content)

\* return response.content
SimpleResult(r) == PyStr(r.content)

\* response.content of a response object that has no such attribute
NoContentError == Exc("AttributeError", "object has no attribute 'content'", 0)

\* invoke_simple with a backend that returns response r.
InvokeSimple(additional, r) ==
    /\ pc = "idle"
    /\ messages' = Conversation(SystemPrompt, additional, UserMessage)
    /\ sent' = Append(sent, Sent("invoke_simple", messages', NoBinding))
    /\ backend_calls' = Append(backend_calls, ResponseKind(r))
    /\ response' = r
    /\ IF r.has_content THEN Returns(SimpleResult(r)) ELSE Raises(NoContentError)
    /\ UNCHANGED <<max_retries, tool_choice, response_parser, model_with_tools,
                   attempt, parser_calls, engine>>
    /\ UNCHANGED loaderVars

\* invoke_simple with a backend call that raises: nothing catches it.
InvokeSimpleFails(additional) ==
    /\ pc = "idle"
    /\ messages' = Conversation(SystemPrompt, additional, UserMessage)
    /\ sent' = Append(sent, Sent("invoke_simple", messages', NoBinding))
    /\ backend_calls' = Append(backend_calls, "raised")
    /\ Raises(TransportError(0))
    /\ UNCHANGED <<max_retries, tool_choice, response_parser, model_with_tools,
                   attempt, response, parser_calls, engine>>
    /\ UNCHANGED loaderVars

\* The tools argument of invoke_with_conversation: None, [] or a tool list.
NoToolSet == [given |-> FALSE, tools |-> <<>>]
ToolSet(tools) == [given |-> TRUE, tools |-> tools]
ToolSetArgs == {NoToolSet, ToolSet(<<>>), ToolSet(Tools)}

\* if tools:
ToolsGiven(ts) == ts.given /\ ts.tools # <<>>

\* conversation_history as callers pass it: empty, a fresh exchange, or a
\* running one that starts with no system message.
Histories ==
    {<<>>,
     <<Message("system", SystemPrompt), Message("user", UserMessage)>>,
     <<Message("user", "earlier question"), Message("assistant", "earlier answer"),
       Message("user", UserMessage)>>}

\* A history that gets the system prompt put in front.
HistoryWithSystem(history) == <<Message("system", SystemPrompt)>> \o history

\* The messages invoke_with_conversation passes to invoke: the list it got.
HistorySent(history) == history

\* An interpretation that insists on a tool call when tools are bound.
ConversationBodyInsisting(r, bound) ==
    IF bound /\ ToolCallsOf(r) # <<>>
    THEN Return(GetArgs(FirstToolCall(ToolCallsOf(r))), 0)
    ELSE IF bound THEN Raise(ToolCallRequiredError, 0)
    ELSE IF r.has_content THEN Return(WrapResponse(r.content), 0)
    ELSE Raise(NoContentError, 0)

\* What invoke_with_conversation makes of response r: the payload of the
\* first tool call when tools are bound and a call is proposed, the wrapped
\* text otherwise.
ConversationBody(r, bound) ==
    IF bound /\ ToolCallsOf(r) # <<>>
    THEN Return(GetArgs(FirstToolCall(ToolCallsOf(r))), 0)
    ELSE IF r.has_content THEN Return(WrapResponse(r.content), 0)
    ELSE Raise(NoContentError, 0)

\* invoke_with_conversation with a backend that returns response r.
InvokeWithConversation(history, ts, tc, r) ==
    LET binding == IF ToolsGiven(ts) THEN [tools |-> ts.tools, tool_choice |-> tc] ELSE NoBinding
        step == ConversationBody(r, ToolsGiven(ts))
    IN /\ pc = "idle"
       /\ tool_choice' = tc
       /\ model_with_tools' = binding
       /\ messages' = HistorySent(history)
       /\ sent' = Append(sent, Sent("invoke_with_conversation", messages', binding))
       /\ backend_calls' = Append(backend_calls, ResponseKind(r))
       /\ response' = r
       /\ IF step.kind = "return" THEN Returns(step.value) ELSE Raises(step.exc)
       /\ UNCHANGED <<max_retries, response_parser, attempt, parser_calls, engine>>
       /\ UNCHANGED loaderVars

\* invoke_with_conversation with a backend call that raises.
InvokeWithConversationFails(history, ts, tc) ==
    LET binding == IF ToolsGiven(ts) THEN [tools |-> ts.tools, tool_choice |-> tc] ELSE NoBinding
    IN /\ pc = "idle"
       /\ tool_choice' = tc
       /\ model_with_tools' = binding
       /\ messages' = HistorySent(history)
       /\ sent' = Append(sent, Sent("invoke_with_conversation", messages', binding))
       /\ backend_calls' = Append(backend_calls, "raised")
       /\ Raises(TransportError(0))
       /\ UNCHANGED <<max_retries, response_parser, attempt, response, parser_calls, engine>>
       /\ UNCHANGED loaderVars

\* The three operations of the engine, one invocation from construction.
EngineNext ==
    \/ InvokeWithTools
    \/ AttemptToolCall
    \/ AttemptNoToolCall
    \/ AttemptTransportFailure
    \/ \E additional \in AdditionalMessages, r \in Responses : InvokeSimple(additional, r)
    \/ \E additional \in AdditionalMessages : InvokeSimpleFails(additional)
    \/ \E history \in Histories, ts \in ToolSetArgs, tc \in ToolChoices, r \in Responses : InvokeWithConversation(history, ts, tc, r)
    \/ \E history \in Histories, ts \in ToolSetArgs, tc \in ToolChoices : InvokeWithConversationFails(history, ts, tc)

EngineSpec == Init /\ [][EngineNext]_vars

(***************************************************************************)
(* Properties of the three operations of the engine                        *)
(***************************************************************************)
\* C23: what invoke_with_tools and invoke_simple send to the backend is the
\* system message, then the caller's prior messages in their order, then the
\* user message; within one invoke_with_tools call every attempt sends the
\* same conversation on the same tool binding, and neither changes between
\* attempts.
C23_ConversationOrder ==
    /\ [](\A i \in DOMAIN sent :
             sent[i].op \in {"invoke_with_tools", "invoke_simple"}
             => LET m == sent[i].messages
                IN /\ Len(m) >= 2
                   /\ m[1] = Message("system", SystemPrompt)
                   /\ m[Len(m)] = Message("user", UserMessage)
                   /\ SubSeq(m, 2, Len(m) - 1) \in AdditionalMessages
                   /\ sent[i].op = "invoke_with_tools"
                      => /\ sent[i] = sent[1]
                         /\ m = messages
                         /\ sent[i].binding = [tools |-> Tools, tool_choice |-> tool_choice]
                   /\ sent[i].op = "invoke_simple" => sent[i].binding = NoBinding)
    /\ [][/\ \A additional \in AdditionalMessages :
                (\/ \E tc \in ToolChoices, parser \in Parsers : Invoke(tc, parser, additional)
                 \/ \E r \in Responses : InvokeSimple(additional, r)
                 \/ InvokeSimpleFails(additional))
                => messages' = <<Message("system", SystemPrompt)>> \o additional
                                 \o <<Message("user", UserMessage)>>
          /\ pc = "loop" => (messages' = messages /\ model_with_tools' = model_with_tools)
         ]_vars

\* Three attempts of one invoke_with_tools call were sent the same
\* conversation of four messages.
C23_Witness ==
    /\ pc = "done"
    /\ Len(sent) = 3
    /\ sent[1].op = "invoke_with_tools"
    /\ sent[1].messages = <<Message("system", SystemPrompt), Message("user", "earlier question"),
                            Message("assistant", "earlier answer"), Message("user", UserMessage)>>
    /\ sent[3] = sent[1]

\* C25: invoke_simple issues exactly one backend call, on the model with no
\* tools bound, and returns the text content of the response as it is; when
\* that call raises, its exception reaches the caller and no second call is
\* made.
C25_InvokeSimple ==
    (sent # <<>> /\ sent[1].op = "invoke_simple")
    => /\ pc = "done"
       /\ Len(sent) = 1
       /\ Calls = 1
       /\ sent[1].binding = [tools |-> <<>>, tool_choice |-> ""]
       /\ backend_calls[1] = "raised" => (outcome = "raised" /\ exception = TransportError(0))
       /\ (backend_calls[1] # "raised" /\ response.has_content)
          => (outcome = "returned" /\ result = [type |-> "str", repr |-> response.content])

\* invoke_simple has returned the text 42 of its single backend call.
C25_Witness ==
    /\ sent # <<>>
    /\ sent[1].op = "invoke_simple"
    /\ backend_calls = <<"text">>
    /\ outcome = "returned"
    /\ result = PyStr("42")

\* C26: invoke_with_conversation issues exactly one backend call and sends
\* the history it was given, unchanged; when no tool set is given it returns
\* {"response": content}, also for a response that proposes a tool call.
C26_ConversationUnchanged ==
    /\ [](sent # <<>> /\ sent[1].op = "invoke_with_conversation"
          => /\ pc = "done"
             /\ Len(sent) = 1
             /\ Calls = 1
             /\ sent[1].messages \in Histories
             /\ (sent[1].binding = NoBinding /\ backend_calls[1] # "raised" /\ response.has_content)
                => /\ outcome = "returned"
                   /\ result = PyDict("{response: " \o response.content \o "}"))
    /\ [][\A history \in Histories, ts \in ToolSetArgs, tc \in ToolChoices :
             (\/ \E r \in Responses : InvokeWithConversation(history, ts, tc, r)
              \/ InvokeWithConversationFails(history, ts, tc))
             => /\ sent'[1].messages = history
                /\ ~(ts.given /\ ts.tools # <<>>) => sent'[1].binding = NoBinding
         ]_vars

\* invoke_with_conversation without tools was given a history that starts
\* with a user message and has returned the wrapped text.
C26_Witness ==
    /\ sent # <<>>
    /\ sent[1].op = "invoke_with_conversation"
    /\ sent[1].binding = NoBinding
    /\ sent[1].messages = <<Message("user", "earlier question"), Message("assistant", "earlier answer"),
                            Message("user", UserMessage)>>
    /\ backend_calls = <<"text">>
    /\ result = PyDict("{response: 42}")

C27_Terminates ==
    /\ [](/\ Calls <= max_retries
          /\ pc = "loop" => (attempt = Calls + 1 /\ outcome = "pending")
          /\ pc = "done"
             => \/ outcome = "returned" /\ exception = NoExc
                \/ outcome = "raised" /\ result = PyNone /\ exception = ToolCallRequiredError
                \/ /\ outcome = "raised" /\ result = PyNone
                   /\ exception # NoExc /\ exception # ToolCallRequiredError
                   /\ exception.at = Calls /\ Calls >= 1)
    /\ [][/\ Len(backend_calls') \in {Calls, Calls + 1}
          /\ Len(backend_calls') = Calls + 1 => (pc = "loop" /\ attempt = Calls + 1)
          /\ pc = "done" => UNCHANGED <<backend_calls, outcome, result, exception>>
         ]_vars
    /\ (pc = "loop" ~> pc = "done")

\* An invocation with max_retries = 3 has ended after its three calls.
C27_Witness ==
    /\ pc = "done"
    /\ max_retries = 3
    /\ attempt = 3
    /\ backend_calls = <<"text", "raised", "tool_calls">>
    /\ outcome = "returned"

\* C29: when invoke_with_tools fails with all max_retries attempts used, the
\* failure is that of the last attempt: the exception of its backend call or
\* of the handling of its response when the attempt raised, and the
\* tool-call-required error when it did not; never an exception of an
\* earlier attempt.
C29_FailureOfLastAttempt ==
    (pc = "done" /\ outcome = "raised" /\ max_retries >= 1)
    => /\ Calls = max_retries
       /\ LET last == backend_calls[Calls]
          IN /\ last = "raised" => exception = TransportError(max_retries)
             /\ last = "tool_calls"
                => (exception.at = max_retries /\ exception # ToolCallRequiredError)
             /\ last \in NoToolCallKinds => exception = ToolCallRequiredError
       /\ exception.at \notin 1..(max_retries - 1)

\* The first and the last of three attempts raised: the exception of the
\* third is the one reported.
C29_Witness ==
    /\ pc = "done"
    /\ max_retries = 3
    /\ backend_calls = <<"raised", "text", "raised">>
    /\ outcome = "raised"
    /\ exception = TransportError(3)

(***************************************************************************)
(* One engine shared by concurrent callers                                 *)
(*                                                                         *)
(* The dashboard builds one AgentInvoker at import time and every session  *)
(* calls it.  Each call has its own frame (arguments and local variables); *)
(* the steps of the callers interleave at the backend calls.               *)
(***************************************************************************)
\* The variables of the single-caller view of the engine.
frameVars == <<pc, tool_choice, response_parser, messages, model_with_tools, attempt,
               response, backend_calls, sent, parser_calls, outcome, result, exception>>

SharedChoices == {"required", "auto"}
SharedParsers == {"None", "raising"}
SharedResponses ==
    {Response(TRUE, <<ToolCall(TRUE, ArgsDict)>>, TRUE, ""),
     Response(TRUE, <<ToolCall(TRUE, ArgsBadJson)>>, TRUE, ""),
     Response(TRUE, <<>>, TRUE, "42")}

\* What the backend did on one call of a caller: it raised or returned
\* response r; a is the ordinal of the attempt that made the call (0 outside
\* the retry loop).
Event(raised, r, a) == [raised |-> raised, response |-> r, attempt |-> a]
BackendEvents(a) == {Event(TRUE, NoResponse, a)} \cup {Event(FALSE, r, a) : r \in SharedResponses}

\* An engine that keeps the loop variable in one place for all callers.
AttemptCellOnSelf(i) == 0

\* The loop variable attempt is a local of the call: one cell per caller.
AttemptCell(i) == i

\* The frame f ended: it returned v or raised e.
FrameReturns(f, v) == [f EXCEPT !.pc = "done", !.outcome = "returned", !.result = v]
FrameRaises(f, e) == [f EXCEPT !.pc = "done", !.outcome = "raised", !.exception = e]

\* Caller i moves on to the ordinal after a, or leaves the loop and raises.
SharedNextIteration(i, f, a) ==
    IF a + 1 \in AttemptRange(max_retries)
    THEN engine' = [engine EXCEPT !.inv[i] = [f EXCEPT !.pc = "loop"],
                                  !.cell[AttemptCell(i)] = a + 1]
    ELSE engine' = [engine EXCEPT !.inv[i] = FrameRaises(f, ToolCallRequiredError)]

\* Caller i calls invoke_with_tools.
SharedInvokeWithTools(i, tc, parser) ==
    /\ engine.inv[i].pc = "idle"
    /\ SharedNextIteration(i, [IdleFrame EXCEPT !.op = "invoke_with_tools", !.tool_choice = tc,
                                                !.response_parser = parser], 0)
    /\ UNCHANGED <<max_retries, frameVars, loaderVars>>

\* One iteration of the loop of caller i, in which the backend does ev.
SharedAttempt(i, raised, r) ==
    LET f == engine.inv[i]
        a == engine.cell[AttemptCell(i)]
        step == IF raised THEN Raise(TransportError(a), 0)
                ELSE TryBody(r, f.tool_choice, f.response_parser, a)
        g == [f EXCEPT !.events = Append(f.events, Event(raised, r, a))]
    IN /\ f.pc = "loop"
       /\ CASE step.kind = "return" -> engine' = [engine EXCEPT !.inv[i] = FrameReturns(g, step.value)]
            [] step.kind = "raise" /\ IsLastAttempt(a, max_retries)
                 -> engine' = [engine EXCEPT !.inv[i] = FrameRaises(g, step.exc)]
            [] OTHER -> SharedNextIteration(i, g, a)
       /\ UNCHANGED <<max_retries, frameVars, loaderVars>>

\* Caller i calls invoke_simple: one backend call.
SharedInvokeSimple(i, raised, r) ==
    LET g == [IdleFrame EXCEPT !.op = "invoke_simple", !.events = <<Event(raised, r, 0)>>]
    IN /\ engine.inv[i].pc = "idle"
       /\ engine' = [engine EXCEPT !.inv[i] =
                        IF raised THEN FrameRaises(g, TransportError(0))
                        ELSE FrameReturns(g, SimpleResult(r))]
       /\ UNCHANGED <<max_retries, frameVars, loaderVars>>

\* Caller i calls invoke_with_conversation: one backend call.
SharedInvokeWithConversation(i, ts, tc, raised, r) ==
    LET g == [IdleFrame EXCEPT !.op = "invoke_with_conversation", !.tool_choice = tc,
                               !.events = <<Event(raised, r, 0)>>]
        step == ConversationBody(r, ToolsGiven(ts))
    IN /\ engine.inv[i].pc = "idle"
       /\ engine' = [engine EXCEPT !.inv[i] =
                        IF raised THEN FrameRaises(g, TransportError(0))
                        ELSE FrameReturns(g, step.value)]
       /\ UNCHANGED <<max_retries, frameVars, loaderVars>>

SharedNext ==
    \/ \E i \in Callers, tc \in SharedChoices, parser \in SharedParsers : SharedInvokeWithTools(i, tc, parser)
    \/ \E i \in Callers : \E ev \in BackendEvents(0) : SharedAttempt(i, ev.raised, ev.response)
    \/ \E i \in Callers : \E ev \in BackendEvents(0) : SharedInvokeSimple(i, ev.raised, ev.response)
    \/ \E i \in Callers, ts \in {NoToolSet, ToolSet(Tools)} : \E ev \in BackendEvents(0) : SharedInvokeWithConversation(i, ts, "auto", ev.raised, ev.response)

\* The engine as the dashboard builds it (max_retries=3), its callers idle.
SharedSpec == LoaderInit /\ [][SharedNext]_allVars

(***************************************************************************)
(* Properties of the shared engine                                         *)
(***************************************************************************)
\* The outcome of invoke_with_tools run alone from ordinal k on the backend
\* events evs, for the arguments tc and parser: what it returned or raised,
\* or "pending" when the events run out before it ends.
RECURSIVE RunFrom(_, _, _, _)
RunFrom(evs, k, tc, parser) ==
    IF k \notin AttemptRange(max_retries)
    THEN [outcome |-> "raised", result |-> PyNone, exception |-> ToolCallRequiredError]
    ELSE IF k > Len(evs)
    THEN [outcome |-> "pending", result |-> PyNone, exception |-> NoExc]
    ELSE LET step == IF evs[k].raised THEN Raise(TransportError(k), 0)
                     ELSE TryBody(evs[k].response, tc, parser, k)
         IN CASE step.kind = "return"
                   -> [outcome |-> "returned", result |-> step.value, exception |-> NoExc]
              [] step.kind = "raise" /\ IsLastAttempt(k, max_retries)
                   -> [outcome |-> "raised", result |-> PyNone, exception |-> step.exc]
              [] OTHER -> RunFrom(evs, k + 1, tc, parser)

FrameOutcome(f) == [outcome |-> f.outcome, result |-> f.result, exception |-> f.exception]

OwnOrdinalsAndOutcome ==
    \A i \in Callers :
        LET f == engine.inv[i]
        IN f.op = "invoke_with_tools" =>
              /\ Len(f.events) <= max_retries
              /\ \A k \in 1..Len(f.events) : f.events[k].attempt = k
              /\ FrameOutcome(f) = RunFrom(f.events, 1, f.tool_choice, f.response_parser)

\* C24: no invoke_* operation changes model_name, temperature, max_retries
\* or the base model of the engine, and when the invocations of two callers
\* interleave on one engine the backend calls of each carry the ordinals
\* 1, 2, ... of its own attempts, at most max_retries of them, and its
\* outcome is the one the invocation has when run alone on the backend's
\* answers to its own calls.
C24_NoCrossInvocationState ==
    /\ []OwnOrdinalsAndOutcome
    /\ [][engine'.self = engine.self /\ max_retries' = max_retries]_allVars

\* Both callers are inside invoke_with_tools at once, with different
\* arguments, the first before its third attempt and the second before its
\* second.
C24_Witness ==
    /\ engine.inv[1].pc = "loop" /\ engine.inv[2].pc = "loop"
    /\ Len(engine.inv[1].events) = 2 /\ Len(engine.inv[2].events) = 1
    /\ engine.inv[1].tool_choice # engine.inv[2].tool_choice
    /\ engine.inv[1].events[1].raised /\ ~engine.inv[2].events[1].raised

(***************************************************************************)
(* Concurrent loads and reloads on one loader                              *)
(*                                                                         *)
(* reload takes no lock either: its membership test and its del are two    *)
(* steps, and they interleave with the steps of load and of another        *)
(* reload on the same dictionary.                                          *)
(***************************************************************************)
\* Thread t calls reload(arg) on the loader of kind k.  if filename: chooses
\* between the entry of the name and the whole cache.
ReloadCall(t, k, arg) ==
    /\ thread[t].pc = "idle"
    /\ thread' = [thread EXCEPT ![t] =
            [IdleThread EXCEPT !.pc = IF Truthy(arg) THEN "in_cache" ELSE "clear",
                               !.op = "reload", !.kind = k, !.name = arg.name,
                               !.cached_at_call = (arg.name \in DOMAIN cache[k]),
                               !.size_at_call = Cardinality(DOMAIN cache[k]),
                               !.outcome = "pending"]]
    /\ UNCHANGED <<cache, disk, last_op, vars>>

\* if filename in self._cache: ... else: logger.warning(...)
ReloadCheck(t) ==
    LET th == thread[t]
    IN /\ th.pc = "in_cache"
       /\ IF th.name \in DOMAIN cache[th.kind]
          THEN thread' = [thread EXCEPT ![t].pc = "del"]
          ELSE Finish(t, "returned", NoneValue, "")
       /\ UNCHANGED <<cache, disk, last_op, vars>>

\* del self._cache[filename]: raises KeyError when the entry is no longer
\* there.
ReloadDelete(t) ==
    LET th == thread[t]
    IN /\ th.pc = "del"
       /\ IF th.name \in DOMAIN cache[th.kind]
          THEN /\ cache' = [cache EXCEPT ![th.kind] = Remove(cache[th.kind], th.name)]
               /\ Finish(t, "returned", NoneValue, "")
          ELSE /\ UNCHANGED cache
               /\ Finish(t, "raised", NoneValue, "KeyError")
       /\ UNCHANGED <<disk, last_op, vars>>

\* self._cache.clear()
ReloadClear(t) ==
    LET th == thread[t]
    IN /\ th.pc = "clear"
       /\ cache' = [cache EXCEPT ![th.kind] = EmptyCache]
       /\ Finish(t, "returned", NoneValue, "")
       /\ UNCHANGED <<disk, last_op, vars>>

ReloadingNext ==
    \/ \E t \in Threads : \E k \in Kinds : \E name \in FileNames(k), uc \in BOOLEAN : Call(t, k, name, uc)
    \/ \E t \in Threads : CheckCache(t)
    \/ \E t \in Threads : ReturnCached(t)
    \/ \E t \in Threads : CheckExists(t)
    \/ \E t \in Threads : ReadFile(t)
    \/ \E t \in Threads : StoreAndReturn(t)
    \/ \E t \in Threads : \E k \in Kinds : \E arg \in ReloadArgs(k) : ReloadCall(t, k, arg)
    \/ \E t \in Threads : ReloadCheck(t)
    \/ \E t \in Threads : ReloadDelete(t)
    \/ \E t \in Threads : ReloadClear(t)

ReloadingSpec == ConcurrentInit /\ [][ReloadingNext]_allVars

(***************************************************************************)
(* Properties of concurrent loads and reloads                              *)
(***************************************************************************)
\* Thread t is in or past a load of a file that is there and decodes, and
\* thread u in or past a reload of that name or of the whole cache.
LoadAgainstReload(t, u) ==
    /\ thread[t].op = "load" /\ thread[u].op = "reload"
    /\ thread[t].kind = thread[u].kind
    /\ thread[u].name \in {thread[t].name, ""}
    /\ thread[t].name \in Loadable(disk, thread[t].kind)

\* Both threads are in or past a reload of one name that was cached when
\* they called.
ReloadAgainstReload(t, u) ==
    /\ thread[t].op = "reload" /\ thread[u].op = "reload"
    /\ thread[t].kind = thread[u].kind
    /\ thread[t].name = thread[u].name /\ thread[t].name # ""
    /\ thread[t].cached_at_call /\ thread[u].cached_at_call

\* C28: in every interleaving of load(name) with a concurrent reload(name)
\* or reload() on one loader, and of two concurrent reload(name) on a
\* cached name, no call raises KeyError; the load returns the content of
\* the file and each reload returns normally.
C28_ReloadsSerialized ==
    \A t \in Threads : \A u \in Threads \ {t} :
        (thread[t].pc = "done" /\ (LoadAgainstReload(t, u) \/ LoadAgainstReload(u, t) \/ ReloadAgainstReload(t, u)))
        => /\ thread[t].error # "KeyError"
           /\ thread[t].outcome = "returned"
           /\ thread[t].op = "load"
                 => thread[t].value = ContentOnDisk(disk[thread[t].kind], thread[t].kind, thread[t].name)

====
